---- MODULE Spec2Model ----
(***************************************************************************)
(* The Modbus loggers as one sequential process.                           *)
(*                                                                         *)
(* A run executes one of the three scripts of the repository:              *)
(*   modbus_logger    the configurable logger, which dispatches to one of  *)
(*                    the device functions of utils/device_specific_func   *)
(*   dc_meter_logger  the standalone DC meter script                       *)
(*   temp_logger      the standalone temperature logger script             *)
(* pc is the position of the process in the script (or in the device       *)
(* function it called).  One action is one step of the script: a read of   *)
(* the transport with the decode and the row that follow it, a sleep, a    *)
(* close, an exit.  An operator interrupt (KeyboardInterrupt) can arrive   *)
(* between any two steps and unwinds the way Python unwinds it.            *)
(*                                                                         *)
(* The Modbus client (pymodbus) is the environment: a read raises, returns *)
(* an error-flagged response (isError(), no registers), or returns a       *)
(* register block.  Register contents are abstracted to the block length   *)
(* in the process model; the decoders are separate operators.              *)
(***************************************************************************)
EXTENDS Integers, Sequences, FiniteSets, TLC

\* ------------------------------------------------------------------ bounds
\* Number of poll cycles (calls of the device function) explored per run.
MaxCycles == 2

\* ------------------------------------------------------- program constants
max_retries == 10
\* seconds slept after a failed attempt of hoymiles_dtu_p
BackoffSeconds == 2
\* per-unit address stride of hoymiles_dtu_p
Stride == 96
\* smallest register block each decoder can index without IndexError
DcmMinRegs == 26
WeatherMinRegs == 44
HoymilesMinData == 41
\* number of channels written in a tp_700 / temp_logger error row
TempChannels == 24
\* standalone scripts
DC_REG_COUNT == 40
TEMP_REG_COUNT == 48

Scripts == {"modbus_logger", "dc_meter_logger", "temp_logger"}

\* The device functions defined in utils/device_specific_func.py.
DriverNames == {"list_regis", "hoymiles_dtu_p", "tp_700", "dcm_3366", "custom_weather"}

\* Attributes that every imported Python module object carries: those of its
\* namespace, and __dict__ and __class__; and the methods and slots it gets
\* from its type.
ModuleObjectAttributes ==
    {"__name__", "__doc__", "__file__", "__builtins__", "__spec__", "__loader__",
     "__package__", "__cached__", "__dict__", "__class__"}
ModuleTypeAttributes ==
    {"__delattr__", "__dir__", "__eq__", "__format__", "__ge__", "__getattribute__",
     "__gt__", "__hash__", "__init__", "__init_subclass__", "__le__", "__lt__",
     "__ne__", "__new__", "__reduce__", "__reduce_ex__", "__repr__", "__setattr__",
     "__sizeof__", "__str__", "__subclasshook__", "__getstate__", "__annotations__"}

\* Every attribute of the module utils.device_specific_func that getattr finds:
\* the device functions, the names bound by its import statements, and the
\* attributes of the module object itself.
ModuleAttributes ==
    DriverNames \cup {"struct", "csv", "logging", "time", "sys", "datetime",
                      "ModbusSerialClient", "ModbusTcpClient", "logger"}
                \cup ModuleObjectAttributes \cup ModuleTypeAttributes

\* Names of utils.common_utils that modbus_logger.py imports (line 9) ...
ImportedHelpers ==
    {"get_csv_path_daily", "show_disk_usage_bar", "get_log_path",
     "cleanup_old_logs", "log_rotation"}
\* ... and the names utils/common_utils.py defines.
CommonUtilsExports ==
    {"Tee", "get_csv_path", "cleanup_old_logs", "get_log_path", "log_rotation",
     "show_disk_usage_bar"}

\* The helper module bound by the import of line 9: the file of the repository
\* ("src"), or a module with the interface modbus_logger.py is written against
\* ("as_called": get_csv_path_daily, log_rotation(folder, date, days)).
HelperModules == {"src", "as_called"}
HelperExports(h) ==
    IF h = "src" THEN CommonUtilsExports ELSE ImportedHelpers

\* ---------------------------------------------------- configuration inputs
\* device.name values explored: the drivers, other attributes of the module
\* (import-bound names, attributes of the module object), and a name the
\* module does not have.
ConfiguredNames ==
    DriverNames \cup {"struct", "csv", "time", "logger", "datetime",
                      "__name__", "__class__", "no_such_device"}
\* device.reg_count values explored (schema: any integer)
RegCounts == {20, 47, 48}
\* device.id_range values explored (schema: array of integers, minItems 1)
IdRanges == {<<1>>, <<1, 2>>, <<2, 3>>}
\* device.start_addr values explored (schema: any integer)
StartAddrs == {0, 65500}
\* Keys device.retries / device.retry_interval in the configuration file: the
\* schema declares no such keys and does not forbid additional ones, so a file
\* carrying them is valid.  0 stands for a key that is absent.
RetryKeys == {[retries |-> 0, retry_interval |-> 0], [retries |-> 3, retry_interval |-> 5]}

NoConfig ==
    [name |-> "", start_addr |-> 0, reg_count |-> 0, id_range |-> <<>>,
     retries |-> 0, retry_interval |-> 0]

\* The constants of the standalone scripts, as a device configuration.
DcConfig ==
    [name |-> "dc_meter_logger", start_addr |-> 0, reg_count |-> DC_REG_COUNT,
     id_range |-> <<1, 2, 3, 4, 5, 6, 7, 8>>, retries |-> 0, retry_interval |-> 0]
TempConfig ==
    [name |-> "temp_logger", start_addr |-> 0, reg_count |-> TEMP_REG_COUNT,
     id_range |-> <<1>>, retries |-> 0, retry_interval |-> 0]

\* ------------------------------------------------------------- environment
\* What client.read_*_registers(count = rc) can produce.
ReadOutcomes(rc) ==
    {[kind |-> "raise", len |-> 0],
     [kind |-> "error", len |-> 0],
     [kind |-> "regs",  len |-> 0],
     [kind |-> "regs",  len |-> rc]}

NoRead == [addr |-> 0, count |-> 0, unit |-> 0]

VARIABLES
    script,      \* the script this run executes
    helpers,     \* the helper module bound at import (modbus_logger only)
    pc,          \* position in the script
    cfg,         \* device block of the configuration
    client,      \* the Modbus client: created, socket open, close() calls
    exitStatus,  \* -1 while running, else the process exit status
    exitAt,      \* pc at which the process left the script
    pending,     \* exception being unwound through the finally block
    cycles,      \* poll cycles started
    k,           \* position of the current unit in cfg.id_range (1-based)
    rows,        \* rows appended to the CSV in the current cycle
    visited,     \* unit ids read in the current cycle, in order
    failed,      \* units of the current cycle whose read gave no decodable block
    reads,       \* read calls issued in the run
    unitReads,   \* read calls issued for the current unit in this cycle
    lastRead,    \* arguments of the latest read call
    attempt,     \* hoymiles_dtu_p: attempt
    success,     \* hoymiles_dtu_p: success
    regs,        \* hoymiles_dtu_p: regs, the blocks collected in this cycle
    slept,       \* hoymiles_dtu_p: seconds of each backoff sleep for the current unit
    sleeps,      \* time.sleep(TIME_STEP) calls completed in the run
    tee,         \* standalone scripts: log files held by the Tee installed as sys.stdout
    openLogs,    \* standalone scripts: log files that are open
    call,        \* decoders in isolation: the decoder and the block handed to it
    decoded      \* decoders in isolation: what the decoder produced

vars == <<script, helpers, pc, cfg, client, exitStatus, exitAt, pending, cycles,
          k, rows, visited, failed, reads, unitReads, lastRead, attempt, success, regs,
          slept, sleeps, tee, openLogs, call, decoded>>

exitVars  == <<exitStatus, exitAt>>
cycleVars == <<cycles, k, rows, visited, failed>>
readVars  == <<reads, unitReads, lastRead>>
retryVars == <<attempt, success, regs, slept>>
envVars   == <<script, helpers>>
decodeVars == <<call, decoded>>
logVars   == <<tee, openLogs>>

\* No decoder is being run in isolation.
NoCall == [fn |-> "none", regs |-> <<>>, reg_count |-> 0]
NotDecoded == [status |-> "pending"]

EntryPc(s) ==
    CASE s = "modbus_logger"   -> "ml_import"
      [] s = "dc_meter_logger" -> "dc_connect"
      [] s = "temp_logger"     -> "tl_connect"

Init ==
    /\ script \in Scripts
    /\ helpers \in (IF script = "modbus_logger" THEN HelperModules ELSE {"src"})
    /\ pc = EntryPc(script)
    /\ cfg = (CASE script = "modbus_logger"   -> NoConfig
                [] script = "dc_meter_logger" -> DcConfig
                [] script = "temp_logger"     -> TempConfig)
    /\ client = [created |-> FALSE, connected |-> FALSE, open |-> FALSE, closeCalls |-> 0]
    /\ exitStatus = -1
    /\ exitAt = ""
    /\ pending = "none"
    /\ cycles = 0
    /\ k = 1
    /\ rows = <<>>
    /\ visited = <<>>
    /\ failed = <<>>
    /\ reads = 0
    /\ unitReads = 0
    /\ lastRead = NoRead
    /\ attempt = 0
    /\ success = FALSE
    /\ regs = <<>>
    /\ slept = <<>>
    /\ sleeps = 0
    /\ tee = <<>>
    /\ openLogs = {}
    /\ call = NoCall
    /\ decoded = NotDecoded

\* ---------------------------------------------------------------- helpers
Unit == cfg.id_range[k]

\* The process ends with the given status.
Exit(status) ==
    /\ pc' = "done"
    /\ exitStatus' = status
    /\ exitAt' = pc

\* client.close()
Closed(c) == [c EXCEPT !.open = FALSE, !.closeCalls = @ + 1]

\* The pcs that lie inside the try block of each script's main loop.
DriverPcs ==
    {"lr_unit",
     "hm_unit", "hm_retry", "hm_backoff", "hm_exit", "hm_parse",
     "tp_unit", "tp_close", "tp_exit",
     "dcm_unit", "dcm_close", "dcm_exit",
     "cw_unit", "cw_close", "cw_exit"}
TryBlock(s) ==
    CASE s = "modbus_logger"   -> {"ml_rotate", "ml_csv", "ml_sleep", "ml_call"} \cup DriverPcs
      [] s = "dc_meter_logger" -> {"dc_rotate", "dc_unit", "dc_sleep"}
      [] s = "temp_logger"     -> {"tl_rotate", "tl_unit", "tl_sleep"}
FinallyPc(s) ==
    CASE s = "modbus_logger"   -> "ml_finally"
      [] s = "dc_meter_logger" -> "dc_finally"
      [] s = "temp_logger"     -> "tl_finally"

\* An exception that no handler inside the loop body catches is raised at pc.
\* Inside the try block it reaches the finally block; elsewhere it ends the
\* process at once (status 1 for SystemExit(1) and for a traceback).
Unwind(exc) ==
    IF pc \in TryBlock(script)
    THEN /\ pc' = FinallyPc(script)
         /\ pending' = exc
         /\ UNCHANGED exitVars
    ELSE /\ Exit(IF exc = "KeyboardInterrupt" THEN 130 ELSE 1)
         /\ pending' = exc

\* The current unit joins the units that failed in this cycle.
Failure(unit, why) == Append(failed, [unit |-> unit, why |-> why])

\* A read call is issued for the current unit.
IssueRead(addr, unit) ==
    /\ reads' = reads + 1
    /\ unitReads' = unitReads + 1
    /\ lastRead' = [addr |-> addr, count |-> cfg.reg_count, unit |-> unit]

\* An operator interrupt arrives while the read call waits for the device, or
\* after the call raised, inside the `except Exception` handler before it has
\* counted the attempt or written a row: KeyboardInterrupt is no Exception, so
\* no handler of the unit loop catches it and nothing of the response is
\* processed.  The socket is as the read call left it.
InterruptedRead(addr, unit) ==
    /\ IssueRead(addr, unit)
    /\ \E stillOpen \in BOOLEAN :
          client' = [client EXCEPT !.open = client.open /\ stillOpen]
    /\ Unwind("KeyboardInterrupt")
    /\ UNCHANGED <<envVars, decodeVars, logVars, sleeps, cfg, cycleVars, retryVars>>

\* After a read that raised, the socket may or may not still be open.
SocketAfter(out, c, stillOpen) ==
    IF out.kind = "raise" THEN [c EXCEPT !.open = c.open /\ stillOpen] ELSE c

\* ------------------------------------------------- modbus_logger: startup
\* lines 1-9: the imports
ml_import ==
    /\ pc = "ml_import"
    /\ IF ImportedHelpers \subseteq HelperExports(helpers)
       THEN pc' = "ml_argv" /\ UNCHANGED <<exitVars, pending>>
       ELSE Exit(1) /\ pending' = "ImportError"
    /\ UNCHANGED <<envVars, decodeVars, logVars, sleeps, cfg, client, cycleVars, readVars, retryVars>>

\* lines 14-16: the command-line argument
ml_argv ==
    /\ pc = "ml_argv"
    /\ \E given \in BOOLEAN :
          IF given
          THEN pc' = "ml_config" /\ UNCHANGED <<exitVars, pending>>
          ELSE Exit(1) /\ pending' = "SystemExit"
    /\ UNCHANGED <<envVars, decodeVars, logVars, sleeps, cfg, client, cycleVars, readVars, retryVars>>

\* line 21 and validate_config: the configuration file
ml_config ==
    /\ pc = "ml_config"
    /\ \/ /\ \E n \in ConfiguredNames, a \in StartAddrs, rc \in RegCounts, ids \in IdRanges,
                   extra \in RetryKeys :
                cfg' = [name |-> n, start_addr |-> a, reg_count |-> rc, id_range |-> ids,
                        retries |-> extra.retries, retry_interval |-> extra.retry_interval]
          /\ pc' = "ml_client"
          /\ UNCHANGED <<exitVars, pending>>
       \/ /\ Exit(1)
          /\ pending' = "SystemExit"
          /\ UNCHANGED cfg
    /\ UNCHANGED <<envVars, decodeVars, logVars, sleeps, client, cycleVars, readVars, retryVars>>

\* lines 53-74: construct the client
ml_client ==
    /\ pc = "ml_client"
    /\ \E ok \in BOOLEAN :
          IF ok
          THEN /\ client' = [client EXCEPT !.created = TRUE]
               /\ pc' = "ml_connect"
               /\ UNCHANGED <<exitVars, pending>>
          ELSE /\ Exit(1)
               /\ pending' = "SystemExit"
               /\ UNCHANGED client
    /\ UNCHANGED <<envVars, decodeVars, logVars, sleeps, cfg, cycleVars, readVars, retryVars>>

\* lines 77-81: connect
ml_connect ==
    /\ pc = "ml_connect"
    /\ \E ok \in BOOLEAN :
          IF ok
          THEN /\ client' = [client EXCEPT !.connected = TRUE, !.open = TRUE]
               /\ pc' = "ml_lookup"
               /\ UNCHANGED <<exitVars, pending>>
          ELSE /\ Exit(1)
               /\ pending' = "SystemExit"
               /\ UNCHANGED client
    /\ UNCHANGED <<envVars, decodeVars, logVars, sleeps, cfg, cycleVars, readVars, retryVars>>

\* lines 88-93: getattr(device_module, name); AttributeError -> sys.exit(1)
Resolves(name) == name \in ModuleAttributes

ml_lookup ==
    /\ pc = "ml_lookup"
    /\ IF Resolves(cfg.name)
       THEN pc' = "ml_rotate" /\ UNCHANGED <<exitVars, pending>>
       ELSE Exit(1) /\ pending' = "SystemExit"
    /\ UNCHANGED <<envVars, decodeVars, logVars, sleeps, cfg, client, cycleVars, readVars, retryVars>>

\* ----------------------------------------------- modbus_logger: main loop
\* lines 115-123: log rotation
ml_rotate ==
    /\ pc = "ml_rotate"
    /\ pc' = "ml_csv"
    /\ UNCHANGED <<envVars, decodeVars, logVars, sleeps, cfg, client, exitVars, pending, cycleVars, readVars, retryVars>>

\* lines 126-130: CSV path, disk usage
ml_csv ==
    /\ pc = "ml_csv"
    /\ pc' = "ml_sleep"
    /\ UNCHANGED <<envVars, decodeVars, logVars, sleeps, cfg, client, exitVars, pending, cycleVars, readVars, retryVars>>

\* lines 132-133: time.sleep(TIME_STEP)
ml_sleep ==
    /\ pc = "ml_sleep"
    /\ cycles < MaxCycles
    /\ pc' = "ml_call"
    /\ sleeps' = sleeps + 1
    /\ UNCHANGED <<envVars, decodeVars, logVars, cfg, client, exitVars, pending, cycleVars, readVars, retryVars>>

\* First pc of each device function.
DriverEntry(name) ==
    CASE name = "list_regis"     -> "lr_unit"
      [] name = "hoymiles_dtu_p" -> "hm_unit"
      [] name = "tp_700"         -> "tp_unit"
      [] name = "dcm_3366"       -> "dcm_unit"
      [] name = "custom_weather" -> "cw_unit"

\* lines 136-139: device_func(client, ...).  An attribute that is no device
\* function is not callable with these arguments (TypeError, caught and
\* logged) or returns at once without touching the client.
ml_call ==
    /\ pc = "ml_call"
    /\ cycles' = cycles + 1
    /\ k' = 1
    /\ rows' = <<>>
    /\ visited' = <<>>
    /\ failed' = <<>>
    /\ unitReads' = 0
    /\ regs' = <<>>
    /\ pc' = IF cfg.name \in DriverNames THEN DriverEntry(cfg.name) ELSE "ml_rotate"
    /\ UNCHANGED <<envVars, decodeVars, logVars, sleeps, cfg, client, exitVars, pending, reads, lastRead, attempt, success, slept>>

\* lines 143-145 (and the handler of 141-142): close the client, leave.
ml_finally ==
    /\ pc = "ml_finally"
    /\ client' = Closed(client)
    /\ Exit(IF pending = "KeyboardInterrupt" THEN 0 ELSE 1)
    /\ UNCHANGED <<envVars, decodeVars, logVars, sleeps, cfg, pending, cycleVars, readVars, retryVars>>

\* The device function returns, or an Exception leaves it and is caught by
\* the handler of lines 138-139: next iteration of the main loop.
NextIteration == pc' = "ml_rotate"

\* End of the body of `for unit in device_range`: next unit, or go on at afterPc.
NextUnit(loopPc, afterPc) ==
    IF k < Len(cfg.id_range)
    THEN k' = k + 1 /\ pc' = loopPc
    ELSE k' = k /\ pc' = afterPc

\* One CSV row: the unit it was written for, the unit whose register block it
\* was decoded from, the number of values handed to writerow, the data fields
\* ("null" for None, "num" for a number, "text" for a string) and the Error column.
Fill(n, v) == [i \in 1..n |-> v]
Row(unit, block, meta, vals, status) ==
    [unit |-> unit, block |-> block, cols |-> meta + Len(vals) + 1,
     vals |-> vals, status |-> status]

\* ------------------------------------------------------------- list_regis
\* lines 15-37, one unit: every outcome is logged, nothing is written.
lr_unit ==
    /\ pc = "lr_unit"
    /\ \/ /\ \E out \in ReadOutcomes(cfg.reg_count), stillOpen \in BOOLEAN :
                /\ IssueRead(cfg.start_addr, Unit)
                /\ client' = SocketAfter(out, client, stillOpen)
                /\ failed' = IF out.kind = "regs" /\ out.len > 0
                              THEN failed
                              ELSE Failure(Unit, IF out.kind = "regs" THEN "short" ELSE out.kind)
          /\ visited' = Append(visited, Unit)
          /\ NextUnit("lr_unit", "ml_rotate")
          /\ UNCHANGED <<envVars, decodeVars, logVars, sleeps, cfg, exitVars, pending, cycles, rows, retryVars>>
       \/ InterruptedRead(cfg.start_addr, Unit)

\* --------------------------------------------------------- hoymiles_dtu_p
\* the retry loop with its bound off by one
MayRetryOffByOne(a) == a <= max_retries

\* line 54: the condition of the retry loop
MayRetry(a) == a < max_retries

\* the address with the stride applied to i instead of i - 1
HoymilesAddrFromZero(start, i) == start + Stride * i

\* line 57: the address read for unit index i
HoymilesAddr(start, i) == start + Stride * (i - 1)

\* start of one unit with the attempt counter carried over from the unit before
hm_unit_no_reset ==
    /\ pc = "hm_unit"
    /\ success' = FALSE
    /\ unitReads' = 0
    /\ slept' = <<>>
    /\ visited' = Append(visited, Unit)
    /\ pc' = "hm_retry"
    /\ UNCHANGED <<envVars, decodeVars, logVars, sleeps, cfg, client, exitVars, pending, cycles, k, rows,
                   failed, reads, lastRead, regs, attempt>>

\* lines 46-52: start of one unit: pacing sleep, fresh attempt counter
hm_unit ==
    /\ pc = "hm_unit"
    /\ attempt' = 0
    /\ success' = FALSE
    /\ unitReads' = 0
    /\ slept' = <<>>
    /\ visited' = Append(visited, Unit)
    /\ pc' = "hm_retry"
    /\ UNCHANGED <<envVars, decodeVars, logVars, sleeps, cfg, client, exitVars, pending, cycles, k, rows, failed, reads, lastRead, regs>>

\* lines 54-77: one attempt.  A raised exception and an error-flagged response
\* both count as a failed attempt followed by the backoff sleep; a valid
\* response is stored and ends the unit.
hm_retry ==
    /\ pc = "hm_retry"
    /\ MayRetry(attempt)
    /\ \/ /\ \E out \in ReadOutcomes(cfg.reg_count), stillOpen \in BOOLEAN :
                /\ IssueRead(HoymilesAddr(cfg.start_addr, Unit), 1)
                /\ client' = SocketAfter(out, client, stillOpen)
                /\ IF out.kind \in {"raise", "error"}
                   THEN /\ attempt' = attempt + 1
                        /\ pc' = "hm_backoff"
                        /\ UNCHANGED <<success, regs, k, failed>>
                   ELSE /\ regs' = Append(regs, [unit |-> Unit, len |-> out.len])
                        /\ failed' = IF out.len + 1 < HoymilesMinData
                                      THEN Failure(Unit, "short") ELSE failed
                        /\ success' = TRUE
                        /\ attempt' = attempt
                        /\ IF k < Len(cfg.id_range)
                           THEN k' = k + 1 /\ pc' = "hm_unit"
                           ELSE k' = 1 /\ pc' = "hm_parse"
          /\ UNCHANGED <<envVars, decodeVars, logVars, sleeps, cfg, exitVars, pending, cycles, rows, visited, slept>>
       \/ InterruptedRead(HoymilesAddr(cfg.start_addr, Unit), 1)

\* lines 66 and 77: time.sleep(2)
hm_backoff ==
    /\ pc = "hm_backoff"
    /\ slept' = Append(slept, BackoffSeconds)
    /\ pc' = "hm_retry"
    /\ UNCHANGED <<envVars, decodeVars, logVars, sleeps, cfg, client, exitVars, pending, cycleVars, readVars,
                   attempt, success, regs>>

\* the retry loop ended without success and the unit is skipped
hm_escalate_skip ==
    /\ pc = "hm_retry"
    /\ ~MayRetry(attempt)
    /\ ~success
    /\ failed' = Failure(Unit, "exhausted")
    /\ IF k < Len(cfg.id_range)
       THEN k' = k + 1 /\ pc' = "hm_unit"
       ELSE k' = 1 /\ pc' = "hm_parse"
    /\ UNCHANGED <<envVars, decodeVars, logVars, sleeps, cfg, client, exitVars, pending, cycles, rows,
                   visited, readVars, retryVars>>

\* lines 79-81: the retry loop ended without success: close the client
hm_escalate ==
    /\ pc = "hm_retry"
    /\ ~MayRetry(attempt)
    /\ ~success
    /\ client' = Closed(client)
    /\ failed' = Failure(Unit, "exhausted")
    /\ pc' = "hm_exit"
    /\ UNCHANGED <<envVars, decodeVars, logVars, sleeps, cfg, exitVars, pending, cycles, k, rows, visited, readVars, retryVars>>

\* the exit of line 82 caught by the handler of the main loop
hm_exit_caught ==
    /\ pc = "hm_exit"
    /\ NextIteration
    /\ UNCHANGED <<envVars, decodeVars, logVars, sleeps, cfg, client, exitVars, pending, cycleVars, readVars, retryVars>>

\* line 82: sys.exit(1)
hm_exit ==
    /\ pc = "hm_exit"
    /\ Unwind("SystemExit")
    /\ UNCHANGED <<envVars, decodeVars, logVars, sleeps, cfg, client, cycleVars, readVars, retryVars>>

\* Python list indexing: the 1-based position that seq[j] denotes in a list of
\* n elements, 0 when it raises IndexError.
PyIndex(n, j) ==
    IF 0 <= j /\ j < n THEN j + 1
    ELSE IF j < 0 /\ -n <= j THEN n + j + 1
    ELSE 0

\* lines 85-143, one unit: data = regs[i - 1]; a short block is logged and
\* skipped, an IndexError is caught and logged; otherwise one row.
hm_parse ==
    /\ pc = "hm_parse"
    /\ LET at == PyIndex(Len(regs), Unit - 1)
       IN  IF at = 0 \/ regs[at].len + 1 < HoymilesMinData
           THEN rows' = rows
           ELSE rows' = Append(rows, Row(Unit, regs[at].unit, 2, Fill(16, "num"), "No error"))
    /\ NextUnit("hm_parse", "ml_rotate")
    /\ UNCHANGED <<envVars, decodeVars, logVars, sleeps, cfg, client, exitVars, pending, cycles, visited, failed, readVars, retryVars>>

\* ----------------------------------------------------------------- tp_700
\* lines 155-160: the response is rejected (ValueError inside the try)
TpInvalid(out, rc) ==
    \/ out.kind \in {"raise", "error"}
    \/ out.len = 0
    \/ out.len < rc

\* lines 193-198: number of iterations of range(0, reg_count, 2)
TpChannels(rc) == (rc + 1) \div 2
\* the last iteration reads regs[i + 1]: IndexError when the block ends at i
TpDecodeRaises(out, rc) == rc % 2 = 1 /\ out.len < rc + 1

\* lines 148-229, one unit: read, validate, decode, write.  Both error paths
\* write a row of 24 None values and go on to close the client and exit.
tp_unit ==
    /\ pc = "tp_unit"
    /\ \/ /\ visited' = Append(visited, Unit)
          /\ \E out \in ReadOutcomes(cfg.reg_count), stillOpen \in BOOLEAN :
                /\ IssueRead(cfg.start_addr, Unit)
                /\ client' = SocketAfter(out, client, stillOpen)
                /\ IF TpInvalid(out, cfg.reg_count)
                   THEN /\ rows' = Append(rows, Row(Unit, Unit, 2, Fill(TempChannels, "null"), "Error"))
                        /\ failed' = Failure(Unit, IF out.kind = "regs" THEN "short" ELSE out.kind)
                        /\ pc' = "tp_close"
                        /\ k' = k
                   ELSE IF TpDecodeRaises(out, cfg.reg_count)
                   THEN /\ rows' = Append(rows, Row(Unit, Unit, 2, Fill(TempChannels, "null"), "Decode error"))
                        /\ failed' = Failure(Unit, "decode")
                        /\ pc' = "tp_close"
                        /\ k' = k
                   ELSE /\ rows' = Append(rows, Row(Unit, Unit, 2, Fill(TpChannels(cfg.reg_count), "num"), "No error"))
                        /\ failed' = failed
                        /\ NextUnit("tp_unit", "ml_rotate")
          /\ UNCHANGED <<envVars, decodeVars, logVars, sleeps, cfg, exitVars, pending, cycles, retryVars>>
       \/ InterruptedRead(cfg.start_addr, Unit)

\* lines 180 and 210: client.close()
tp_close ==
    /\ pc = "tp_close"
    /\ client' = Closed(client)
    /\ pc' = "tp_exit"
    /\ UNCHANGED <<envVars, decodeVars, logVars, sleeps, cfg, exitVars, pending, cycleVars, readVars, retryVars>>

\* lines 181 and 211: sys.exit(1)
tp_exit ==
    /\ pc = "tp_exit"
    /\ Unwind("SystemExit")
    /\ UNCHANGED <<envVars, decodeVars, logVars, sleeps, cfg, client, cycleVars, readVars, retryVars>>

\* ---------------------------------------------- dcm_3366, custom_weather
\* The block cannot be decoded: response.registers is empty (error-flagged
\* response) or shorter than the highest index the decoder reads.
BlockTooShort(out, minRegs) == out.kind = "error" \/ out.len < minRegs

\* One unit of a single-block driver: only a raised read is handled (error
\* row, then close and exit); the decode runs outside any try.
SingleBlockUnit(loopPc, closePc, minRegs, nFields) ==
    /\ pc = loopPc
    /\ \/ /\ visited' = Append(visited, Unit)
          /\ \E out \in ReadOutcomes(cfg.reg_count), stillOpen \in BOOLEAN :
                /\ IssueRead(cfg.start_addr, Unit)
                /\ client' = SocketAfter(out, client, stillOpen)
                /\ IF out.kind = "raise"
                   THEN /\ rows' = Append(rows, Row(Unit, Unit, 2, Fill(nFields, "null"), "Error"))
                        /\ failed' = Failure(Unit, "raise")
                        /\ pc' = closePc
                        /\ k' = k
                   ELSE IF BlockTooShort(out, minRegs)
                   THEN /\ rows' = rows
                        /\ failed' = Failure(Unit, IF out.kind = "regs" THEN "short" ELSE out.kind)
                        /\ NextIteration
                        /\ k' = k
                   ELSE /\ rows' = Append(rows, Row(Unit, Unit, 2, Fill(nFields, "num"), "No error"))
                        /\ failed' = failed
                        /\ NextUnit(loopPc, "ml_rotate")
          /\ UNCHANGED <<envVars, decodeVars, logVars, sleeps, cfg, exitVars, pending, cycles, retryVars>>
       \/ InterruptedRead(cfg.start_addr, Unit)

\* if client.is_socket_open(): client.close()
GuardedClose(closePc, exitPc) ==
    /\ pc = closePc
    /\ client' = IF client.open THEN Closed(client) ELSE client
    /\ pc' = exitPc
    /\ UNCHANGED <<envVars, decodeVars, logVars, sleeps, cfg, exitVars, pending, cycleVars, readVars, retryVars>>

DriverExit(exitPc) ==
    /\ pc = exitPc
    /\ Unwind("SystemExit")
    /\ UNCHANGED <<envVars, decodeVars, logVars, sleeps, cfg, client, cycleVars, readVars, retryVars>>

\* dcm_3366 lines 235-302
dcm_unit == SingleBlockUnit("dcm_unit", "dcm_close", DcmMinRegs, 4)
\* lines 260-265
dcm_close == GuardedClose("dcm_close", "dcm_exit")
\* line 268
dcm_exit == DriverExit("dcm_exit")

\* custom_weather lines 309-410
cw_unit == SingleBlockUnit("cw_unit", "cw_close", WeatherMinRegs, 11)
\* lines 332-337
cw_close == GuardedClose("cw_close", "cw_exit")
\* line 339
cw_exit == DriverExit("cw_exit")

\* ------------------------------------- dc_meter_logger, temp_logger scripts
\* lines 12-13: the client is constructed and connect() is called; its result
\* is not looked at.
ScriptConnect(here, next) ==
    /\ pc = here
    /\ \/ /\ \E ok \in BOOLEAN :
                client' = [client EXCEPT !.created = TRUE, !.connected = ok, !.open = ok]
          /\ pc' = next
          /\ UNCHANGED <<exitVars, pending>>
       \/ \* an operator interrupt arrives inside connect(): the client exists,
          \* the connection was not made
          /\ client' = [client EXCEPT !.created = TRUE]
          /\ Unwind("KeyboardInterrupt")
    /\ UNCHANGED <<envVars, decodeVars, logVars, sleeps, cfg, cycleVars, readVars, retryVars>>

\* Tee.write (common_utils.py lines 14-17) on a stream holding the files t, of
\* which those in o are open: writing to a closed file raises ValueError.  A
\* Tee that wraps the Tee installed before it writes to all files of both.
WriteRaises(t, o) == \E j \in 1..Len(t) : t[j] \notin o

\* folders, log file (number 0), Tee around it, cleanup: the steps between
\* connect and the try
ScriptSetup(here, next) ==
    /\ pc = here
    /\ \/ /\ tee' = <<0>>
          /\ openLogs' = {0}
          /\ pc' = next
          /\ UNCHANGED <<exitVars, pending>>
       \/ \* an operator interrupt arrives after the log file was opened,
          \* before or after the Tee is installed: no try block is active yet
          /\ openLogs' = {0}
          /\ \E installed \in BOOLEAN : tee' = IF installed THEN <<0>> ELSE <<>>
          /\ Unwind("KeyboardInterrupt")
    /\ UNCHANGED <<envVars, decodeVars, sleeps, cfg, client, cycleVars, readVars, retryVars>>

\* top of the loop body.  On a new day (dc_meter_logger.py lines 64-72,
\* temp_logger.py lines 61-69) the log file is closed and cleanup_old_logs is
\* called, which always ends with a print (common_utils.py lines 82-85); if
\* that print raises, the rotation stops there.  Otherwise the file of the
\* day is opened, sys.stdout becomes a Tee around the previous sys.stdout and
\* the new file, and a line is printed.  Then the CSV path; the unit loop
\* starts.
ScriptRotate(here, next) ==
    /\ pc = here
    /\ cycles < MaxCycles
    /\ \E newDay \in BOOLEAN :
          LET closed  == openLogs \ {tee[Len(tee)]}
              cleanup == newDay /\ WriteRaises(tee, closed)
              t == IF newDay /\ ~cleanup THEN Append(tee, Len(tee)) ELSE tee
              o == IF ~newDay THEN openLogs
                   ELSE IF cleanup THEN closed
                   ELSE closed \cup {Len(tee)}
          IN  /\ tee' = t
              /\ openLogs' = o
              /\ IF newDay /\ WriteRaises(t, o)
                 THEN \* the print raises, or an operator interrupt arrives
                      \* between log_file.close() and the print
                      /\ \E exc \in {"ValueError", "KeyboardInterrupt"} : Unwind(exc)
                      /\ UNCHANGED <<cycleVars, unitReads>>
                 ELSE /\ cycles' = cycles + 1
                      /\ k' = 1
                      /\ rows' = <<>>
                      /\ visited' = <<>>
                      /\ failed' = <<>>
                      /\ unitReads' = 0
                      /\ pc' = next
                      /\ UNCHANGED <<exitVars, pending>>
    /\ UNCHANGED <<envVars, decodeVars, sleeps, cfg, client, reads, lastRead, retryVars>>

\* disk usage and time.sleep(TIME_STEP) at the end of the loop body
ScriptSleep(here, next) ==
    /\ pc = here
    /\ pc' = next
    /\ sleeps' = sleeps + 1
    /\ UNCHANGED <<envVars, decodeVars, logVars, cfg, client, exitVars, pending, cycleVars, readVars, retryVars>>

\* finally: client.close(), a print whose ValueError is caught,
\* log_file.close().  sys.stdout stays the Tee, which now holds a closed
\* file: when the interpreter flushes sys.stdout at shutdown, Tee.flush
\* (common_utils.py lines 19-21) raises and the process status becomes 120,
\* whatever it would have been (0 after an interrupt, 1 after a traceback).
ScriptFinally(here) ==
    /\ pc = here
    /\ client' = Closed(client)
    /\ openLogs' = openLogs \ {tee[Len(tee)]}
    /\ tee' = tee
    /\ Exit(IF WriteRaises(tee, openLogs')
            THEN 120
            ELSE IF pending = "KeyboardInterrupt" THEN 0 ELSE 1)
    /\ UNCHANGED <<envVars, decodeVars, sleeps, cfg, pending, cycleVars, readVars, retryVars>>

dc_connect == ScriptConnect("dc_connect", "dc_setup")
dc_setup   == ScriptSetup("dc_setup", "dc_rotate")
dc_rotate  == ScriptRotate("dc_rotate", "dc_unit")
dc_sleep   == ScriptSleep("dc_sleep", "dc_rotate")
dc_finally == ScriptFinally("dc_finally")

\* dc_meter_logger.py lines 76-123, one unit: a raised read writes an error
\* row and continues; the decode runs outside any try, so a block it cannot
\* index raises out of the loop.
dc_unit ==
    /\ pc = "dc_unit"
    /\ \/ /\ visited' = Append(visited, Unit)
          /\ \E out \in ReadOutcomes(cfg.reg_count), stillOpen \in BOOLEAN :
                /\ IssueRead(cfg.start_addr, Unit)
                /\ client' = SocketAfter(out, client, stillOpen)
                /\ IF out.kind = "raise"
                   THEN /\ rows' = Append(rows, Row(Unit, Unit, 2, Fill(4, "null"), "Error"))
                        /\ failed' = Failure(Unit, "raise")
                        /\ NextUnit("dc_unit", "dc_sleep")
                        /\ UNCHANGED <<exitVars, pending>>
                   ELSE IF BlockTooShort(out, DcmMinRegs)
                   THEN /\ rows' = rows
                        /\ failed' = Failure(Unit, IF out.kind = "regs" THEN "short" ELSE out.kind)
                        /\ k' = k
                        /\ Unwind("IndexError")
                   ELSE /\ rows' = Append(rows, Row(Unit, Unit, 2, Fill(4, "num"), "No error"))
                        /\ failed' = failed
                        /\ NextUnit("dc_unit", "dc_sleep")
                        /\ UNCHANGED <<exitVars, pending>>
          /\ UNCHANGED <<envVars, decodeVars, logVars, sleeps, cfg, cycles, retryVars>>
       \/ InterruptedRead(cfg.start_addr, Unit)

tl_connect == ScriptConnect("tl_connect", "tl_setup")
tl_setup   == ScriptSetup("tl_setup", "tl_rotate")
tl_rotate  == ScriptRotate("tl_rotate", "tl_unit")
tl_sleep   == ScriptSleep("tl_sleep", "tl_rotate")
tl_finally == ScriptFinally("tl_finally")

\* temp_logger.py lines 74-112, one unit: a raised read writes a row of
\* "Error" strings; an empty or short block is printed and skipped.
tl_unit ==
    /\ pc = "tl_unit"
    /\ \/ /\ visited' = Append(visited, Unit)
          /\ \E out \in ReadOutcomes(cfg.reg_count), stillOpen \in BOOLEAN :
                /\ IssueRead(cfg.start_addr, Unit)
                /\ client' = SocketAfter(out, client, stillOpen)
                /\ IF out.kind = "raise"
                   THEN /\ rows' = Append(rows, Row(Unit, Unit, 2, Fill(TempChannels, "text"), "Comm Error"))
                        /\ failed' = Failure(Unit, "raise")
                   ELSE IF out.len = 0 \/ out.len < cfg.reg_count
                   THEN /\ rows' = rows
                        /\ failed' = Failure(Unit, IF out.kind = "regs" THEN "short" ELSE out.kind)
                   ELSE /\ rows' = Append(rows, Row(Unit, Unit, 2, Fill(TpChannels(cfg.reg_count), "num"), "No error"))
                        /\ failed' = failed
          /\ NextUnit("tl_unit", "tl_sleep")
          /\ UNCHANGED <<envVars, decodeVars, logVars, sleeps, cfg, exitVars, pending, cycles, retryVars>>
       \/ InterruptedRead(cfg.start_addr, Unit)

\* ---------------------------------------------------- operator interrupt
\* The interrupt arrives before the statement at pc runs.  Inside the finally
\* block it can also arrive after client.close() (in the standalone scripts
\* before or after log_file.close()): the client is closed, and the uncaught
\* KeyboardInterrupt ends the process.
KeyboardInterrupt ==
    /\ pc # "done"
    /\ \/ /\ Unwind("KeyboardInterrupt")
          /\ UNCHANGED <<logVars, client>>
       \/ /\ pc = FinallyPc(script)
          /\ client' = Closed(client)
          /\ tee' = tee
          /\ \E logClosed \in (IF script = "modbus_logger" THEN {FALSE} ELSE BOOLEAN) :
                openLogs' = IF logClosed THEN openLogs \ {tee[Len(tee)]} ELSE openLogs
          /\ Exit(130)
          /\ pending' = "KeyboardInterrupt"
    /\ UNCHANGED <<envVars, decodeVars, sleeps, cfg, cycleVars, readVars, retryVars>>

\* ================================================= the decoders in isolation
\* A register block is the list response.registers; the Python index j is
\* position j + 1 of the sequence.
At(registers, j) == registers[j + 1]

\* Python integers have no width.  A shifted word is kept as two digits in base
\* 65536, so that no intermediate value is cut to the width of the checker.
\* x placed in the low digit: no shift
NoShift(x) == [high |-> 0, low |-> x]

\* x << 16
Shl16(x) == [high |-> x, low |-> 0]

\* w + y: digit-wise addition with carry
AddWord(w, y) ==
    [high |-> w.high + (w.low + y) \div 65536, low |-> (w.low + y) % 65536]

\* a | b on non-negative integers
RECURSIVE BitOr(_, _)
BitOr(a, b) ==
    IF a = 0 THEN b
    ELSE IF b = 0 THEN a
    ELSE (IF a % 2 = 1 \/ b % 2 = 1 THEN 1 ELSE 0) + 2 * BitOr(a \div 2, b \div 2)

\* w | y
OrWord(w, y) ==
    [high |-> BitOr(w.high, y \div 65536), low |-> BitOr(w.low, y % 65536)]

\* (hi << 16) + lo
Combine(hi, lo) ==
    LET w == AddWord(Shl16(hi), lo) IN w.high * 65536 + w.low

\* round(n / d, places) where n / d has one decimal more than places at most:
\* the integers nearest to n / d.  A decimal tie is decided by the binary double
\* nearest to the quotient, so either neighbour can be the result.
RoundHalf(n, d) ==
    LET q == n \div d
        r == n % d
    IN  IF 2 * r < d THEN {q}
        ELSE IF 2 * r > d THEN {q + 1}
        ELSE {q, q + 1}

\* dcm_3366 lines 279-300 (dc_meter_logger.py lines 101-123): the four values
\* handed to writerow, as integers: energy, power and current in thousandths
\* (round(x, 3)), voltage in tenths (round(x, 1)).
DcmRows(registers) ==
    LET Forward_energy == Combine(At(registers, 0), At(registers, 1))
        Active_power   == Combine(At(registers, 20), At(registers, 21))
        Current        == Combine(At(registers, 22), At(registers, 23))
        Voltage        == Combine(At(registers, 24), At(registers, 25))
    IN  { [status |-> "No error",
           energy_milli |-> e, power_milli |-> p, current_milli |-> c, voltage_deci |-> v] :
             e \in {Forward_energy * 10}, p \in {Active_power},
             c \in RoundHalf(Current, 10), v \in RoundHalf(Voltage, 1000) }

\* struct.pack('>HH', high, low): four bytes, each word most significant byte first
Pack(high, low) ==
    <<high \div 256, high % 256, low \div 256, low % 256>>

\* The most significant bit of the 23-bit fraction: set in a quiet NaN.
QuietBit == 4194304

\* struct.unpack('>f', bytes)[0]: the four bytes are read as a binary32 and
\* widened to a Python float.  The value is given by its binary32 fields: sign
\* bit, 8-bit biased exponent, 23-bit fraction.  Widening keeps every number
\* and infinity as it is and turns a signalling NaN (exponent 255, fraction
\* not 0, quiet bit clear) into the quiet NaN with the same payload.
Unpack(b) ==
    LET sign     == b[1] \div 128
        exponent == (b[1] % 128) * 2 + b[2] \div 128
        fraction == (b[2] % 128) * 65536 + b[3] * 256 + b[4]
    IN  [sign     |-> sign,
         exponent |-> exponent,
         fraction |-> IF exponent = 255 /\ fraction # 0 /\ fraction < QuietBit
                      THEN fraction + QuietBit
                      ELSE fraction]

\* tp_700 lines 190-211: the decode loop over range(0, reg_count, 2);
\* regs[i + 1] past the end raises, and the handler of lines 199-211 replaces
\* the channels by 24 None values, writes the row, closes the client and
\* calls sys.exit(1).
TpDecode(registers, rc) ==
    IF rc % 2 = 1 /\ Len(registers) < rc + 1
    THEN [status |-> "Decode error", temps |-> Fill(TempChannels, "null"),
          closes |-> TRUE, exits |-> TRUE]
    ELSE [status |-> "No error",
          temps |-> [c \in 1..TpChannels(rc) |->
                        Unpack(Pack(At(registers, 2 * (c - 1)), At(registers, 2 * (c - 1) + 1)))],
          closes |-> FALSE, exits |-> FALSE]

\* ----------------------------------------------------------- decoder inputs
\* Register words explored for the dcm_3366 block.
DcmHighWords == {0, 1, 100}
DcmLowWords == {0, 5, 100, 12345, 50000}
\* A block of DcmMinRegs registers, zero except the four pairs the decoder reads.
DcmBlock(w) ==
    [j \in 1..DcmMinRegs |->
        CASE j = 1  -> w[1] [] j = 2  -> w[2]
          [] j = 21 -> w[3] [] j = 22 -> w[4]
          [] j = 23 -> w[5] [] j = 24 -> w[6]
          [] j = 25 -> w[7] [] j = 26 -> w[8]
          [] OTHER  -> 0]
\* The block of the EnergyMeter scenario of the specification.  Its word 500000
\* is more than a 16-bit register holds; the arithmetic of the decoder is
\* defined for it all the same.
ScenarioBlock == DcmBlock(<<100, 0, 0, 500000, 0, 12345, 0, 50000>>)
DcmBlocks ==
    {ScenarioBlock} \cup
    { DcmBlock(<<eh, el, 0, pl, 0, cl, 0, vl>>) :
        eh \in DcmHighWords, el \in DcmLowWords, pl \in {0, 100},
        cl \in DcmLowWords, vl \in {0, 50000} }

\* Register words explored for the float decoder: the boundaries of the sign,
\* exponent and fraction fields (0x3F80 is 1.0, 0x7F80 infinity, 0x7FC0 a NaN).
FloatHighWords == {0, 1, 127, 128, 255, 256, 16256, 32640, 32704, 32767, 32768, 49152, 65408, 65535}
FloatLowWords == {0, 1, 255, 256, 32768, 65535}
\* A block of n registers whose channel c (0-based) holds the pair (hi + c, lo + c).
TpBlock(hi, lo, n) ==
    [j \in 1..n |-> IF j % 2 = 1 THEN (hi + (j - 1) \div 2) % 65536
                                 ELSE (lo + (j - 1) \div 2) % 65536]

\* lines 99-100 and 279-282 applied to one register pair: (hi << 16) + lo
combine_pair ==
    /\ call.fn = "combine"
    /\ decoded = NotDecoded
    /\ decoded' = [status |-> "No error",
                   sum |-> AddWord(Shl16(At(call.regs, 0)), At(call.regs, 1))]
    /\ UNCHANGED <<call, envVars, logVars, sleeps, pc, cfg, client, exitVars, pending, cycleVars,
                   readVars, retryVars>>

\* lines 279-300 applied to one block
dcm_decode ==
    /\ call.fn = "dcm_3366"
    /\ decoded = NotDecoded
    /\ decoded' \in DcmRows(call.regs)
    /\ UNCHANGED <<call, envVars, logVars, sleeps, pc, cfg, client, exitVars, pending, cycleVars,
                   readVars, retryVars>>

\* lines 190-211 applied to one block that passed the validation of lines
\* 158-160.  After a decode error the client is closed and SystemExit(1)
\* leaves the function, which no caller catches here.
tp_decode ==
    /\ call.fn = "tp_700"
    /\ decoded = NotDecoded
    /\ LET d == TpDecode(call.regs, call.reg_count)
       IN  /\ decoded' = d
           /\ client' = IF d.closes THEN Closed(client) ELSE client
           /\ IF d.exits
              THEN Unwind("SystemExit")
              ELSE UNCHANGED <<pc, exitVars, pending>>
    /\ UNCHANGED <<call, envVars, logVars, sleeps, cfg, cycleVars, readVars, retryVars>>

\* ================================================================ claims
\* Units of the rows of the current cycle, in the order they were appended.
RowUnits == [i \in 1..Len(rows) |-> rows[i].unit]

\* A poll cycle has run to its end and the loop goes on.
CycleEnded == cycles >= 1 /\ pc \in {"ml_rotate", "dc_sleep", "tl_sleep"}

\* Hosts whose code writes CSV rows.
RowWriters ==
    {"hoymiles_dtu_p", "tp_700", "dcm_3366", "custom_weather",
     "dc_meter_logger", "temp_logger"}
SoftFailDrivers == {"dcm_3366", "tp_700", "custom_weather"}

\* hoymiles_dtu_p writes its rows after all reads; everywhere else the row of a
\* unit is written in the step that read it.
Settled == pc \notin {"hm_unit", "hm_retry", "hm_backoff", "hm_parse"}

\* Column counts of the headers the scripts declare:
\* temp_logger.py line 40 and dc_meter_logger.py lines 42-45.
TempHeaderCols == 2 + TempChannels + 1
DcHeaderCols ==
    Len(<<"Datetime", "Device_ID", "Forward_energy_kWh", "Active_power_kW",
          "Current_A", "Voltage_V", "Error">>)
HasDeclaredHeader(name) == name \in {"tp_700", "temp_logger", "dcm_3366", "dc_meter_logger"}
HeaderCols(name) ==
    IF name \in {"tp_700", "temp_logger"} THEN TempHeaderCols ELSE DcHeaderCols

IsErrorRow(r) == r.status # "No error"
AllNull(r) == \A j \in 1..Len(r.vals) : r.vals[j] = "null"
HasErrorRow(u) == \E i \in 1..Len(rows) : rows[i].unit = u /\ IsErrorRow(rows[i]) /\ AllNull(rows[i])

\* C1: hoymiles_dtu_p under modbus_logger, every read failing: once the first
\* unit has used its max_retries attempts the process ends with a non-zero
\* status and close() has been invoked exactly once in the run.
C1_HardFailClosesOnce ==
    ( /\ pc = "done"
      /\ cfg.name = "hoymiles_dtu_p"
      /\ pending = "SystemExit"
      /\ exitAt = "ml_finally"
      /\ reads = max_retries )
    => (exitStatus # 0 /\ client.closeCalls = 1)

\* C2: while every read of a unit fails, hoymiles_dtu_p has issued as many
\* reads for it as it counted attempts, never more than max_retries, and it
\* escalates (close, exit) only after exactly max_retries reads for the unit.
C2_RetriesExactlyMax ==
    cfg.name = "hoymiles_dtu_p" =>
        /\ pc \in {"hm_retry", "hm_backoff"} =>
               (unitReads = attempt /\ unitReads <= max_retries)
        /\ pc = "hm_exit" => (unitReads = max_retries /\ ~success)
        /\ (pending = "SystemExit" /\ (pc = "ml_finally" \/ exitAt = "ml_finally")) =>
               unitReads = max_retries

\* C2 witness: the escalation has been reached after max_retries failed reads.
C2_Escalated ==
    /\ cfg.name = "hoymiles_dtu_p"
    /\ pc = "hm_exit"
    /\ attempt = max_retries
    /\ unitReads = max_retries

\* C3: in dcm_3366, tp_700 and custom_weather a failed read of a unit (the
\* read raised or returned an error-flagged response) leaves one all-null
\* error row for it, and neither closes the transport nor ends the process.
C3_SoftFailContinues ==
    ( /\ script = "modbus_logger"
      /\ cfg.name \in SoftFailDrivers
      /\ pending # "KeyboardInterrupt" )
    => \A i \in 1..Len(failed) :
          failed[i].why \in {"raise", "error"} =>
              /\ HasErrorRow(failed[i].unit)
              /\ client.closeCalls = 0
              /\ exitStatus = -1

\* C4: at the end of every poll cycle the units read are the id range in its
\* order and the rows written are one per unit of the range, in that order.
C4_OneRowPerUnitInOrder ==
    (CycleEnded /\ cfg.name \in RowWriters)
    => (visited = cfg.id_range /\ RowUnits = cfg.id_range)

\* C5: every row has as many values as the header declared for the device
\* type has columns, and all rows of a device have the same number of values.
C5_SchemaStable ==
    \A i \in 1..Len(rows) :
        /\ HasDeclaredHeader(cfg.name) => rows[i].cols = HeaderCols(cfg.name)
        /\ \A j \in 1..Len(rows) : rows[i].cols = rows[j].cols

\* C6: every unit whose read raised, was error-flagged or gave a short or
\* empty block has an error row whose data fields are all null, and no error
\* row carries anything but nulls in its data fields.
C6_ErrorPathWritesNullRow ==
    Settled =>
        /\ \A i \in 1..Len(failed) : HasErrorRow(failed[i].unit)
        /\ \A i \in 1..Len(rows) : IsErrorRow(rows[i]) => AllNull(rows[i])

\* C7: a block shorter than the decoder indexes, or a decode that raises,
\* yields an error row for the unit; the process keeps running and the cycle
\* still covers the whole id range.
C7_DecodeErrorsContained ==
    ( /\ Settled
      /\ pending # "KeyboardInterrupt"
      /\ cfg.name \in RowWriters
      /\ \E i \in 1..Len(failed) : failed[i].why \in {"short", "decode"} )
    => /\ \A i \in 1..Len(failed) :
             failed[i].why \in {"short", "decode"} => HasErrorRow(failed[i].unit)
       /\ exitStatus = -1
       /\ pc # FinallyPc(script)
       /\ CycleEnded => visited = cfg.id_range

\* C8: a process that was connected and is ended by an operator interrupt
\* has had close() invoked exactly once and its transport is closed.
C8_InterruptClosesOnce ==
    (pc = "done" /\ pending = "KeyboardInterrupt" /\ client.connected)
    => (client.closeCalls = 1 /\ ~client.open)

\* C9: the main loop is left only by an operator interrupt or by the hard-fail
\* escalation of hoymiles_dtu_p; a failed read or decode of a soft-fail driver
\* never ends it.
C9_OnlyHardFailStopsLoop ==
    (pc = "done" /\ exitAt = FinallyPc(script) /\ pending # "KeyboardInterrupt")
    => cfg.name = "hoymiles_dtu_p"

\* C10: with a configured device name that is not a device function, no read
\* is ever issued and the main loop is never entered.
C10_UnknownTypeNeverPolls ==
    (script = "modbus_logger" /\ cfg # NoConfig /\ cfg.name \notin DriverNames)
    => /\ reads = 0
       /\ pc \notin TryBlock("modbus_logger")
       /\ pc # "ml_finally"

\* The lookup of lines 88-93 has succeeded: the script is at or past the main loop.
LookupPassed ==
    \/ pc \in TryBlock("modbus_logger") \cup {"ml_finally"}
    \/ exitAt \in TryBlock("modbus_logger") \cup {"ml_finally"}

\* C11: the lookup succeeds exactly for the names of the device functions:
\* every configured name it lets through to the main loop is a device function,
\* and the process it ends at the lookup had a name that is none.
C11_ResolvesOnlyDrivers ==
    (script = "modbus_logger" /\ cfg # NoConfig)
    => /\ LookupPassed => cfg.name \in DriverNames
       /\ (exitAt = "ml_lookup" /\ pending = "SystemExit") =>
              (cfg.name \notin DriverNames /\ exitStatus = 1)

\* The startup steps of modbus_logger.py that end the process on an error.
StartupPcs == {"ml_argv", "ml_config", "ml_client", "ml_connect", "ml_lookup"}

\* C12: a modbus_logger process that has ended has status 0 only when an
\* operator interrupt stopped its main loop; it has a non-zero status when a
\* startup step ended it, when hoymiles_dtu_p escalated, and whenever the
\* configured device name is not a device function.
C12_ExitStatus ==
    (script = "modbus_logger" /\ pc = "done")
    => /\ exitStatus = 0 => (pending = "KeyboardInterrupt" /\ exitAt = "ml_finally")
       /\ (exitAt \in StartupPcs /\ pending = "SystemExit") => exitStatus # 0
       /\ (exitAt = "ml_finally" /\ pending = "SystemExit") => exitStatus # 0
       /\ (cfg # NoConfig /\ cfg.name \notin DriverNames) => exitStatus # 0

\* C13: close() is invoked on the client only by the finally block of the
\* main loop: while the process has not left through that block no close()
\* has happened, and the block invokes it once.
C13_OnlyMainLoopCloses ==
    /\ client.closeCalls > 0 => (pc = "done" /\ exitAt = FinallyPc(script))
    /\ client.closeCalls <= 1

\* hoymiles_dtu_p has given up a unit in the current cycle.
Escalated == \E i \in 1..Len(failed) : failed[i].why = "exhausted"

\* C14: once hoymiles_dtu_p has escalated, the process is on its way out
\* (exit of the driver, finally block, ended) and never back in the loop; from
\* then on no read is issued, no row is written and no cycle begins.
C14_EscalationNotSwallowed ==
    /\ [](Escalated => (pc \in {"hm_exit", "ml_finally", "done"} /\ rows = <<>>))
    /\ [][Escalated => (reads' = reads /\ rows' = rows /\ cycles' = cycles)]_vars

\* C14 witness: the escalation has ended the process through the finally block.
C14_EscalationEndedProcess ==
    /\ Escalated
    /\ pc = "done"
    /\ exitAt = "ml_finally"
    /\ pending = "SystemExit"
    /\ unitReads = max_retries

\* A poll cycle is under way: the process is in the unit loop of the cycle.
InCycle == pc \in DriverPcs \cup {"dc_unit", "tl_unit"}

\* C15: every poll cycle is preceded by one interval sleep of its own: no read
\* is issued before the first sleep, and while a cycle is under way the run
\* has slept once per cycle started.
C15_SleepBeforeEachCycle ==
    /\ reads > 0 => sleeps >= 1
    /\ InCycle => sleeps = cycles
    /\ sleeps \in {cycles, cycles + 1}

\* C16: for the block of the EnergyMeter scenario the dcm_3366 decoder gives
\* forward energy 1.0 kWh, active power 500.0 kW, current 1.2345 A and
\* voltage 5.0 V.
C16_EnergyMeterScenario ==
    (call.fn = "dcm_3366" /\ call.regs = ScenarioBlock /\ decoded # NotDecoded)
    => /\ decoded.energy_milli = 1000
       /\ decoded.power_milli = 500000
       /\ decoded.current_milli * 10 = 12345
       /\ decoded.voltage_deci = 50

\* The binary32 value whose big-endian bit pattern is hi * 65536 + lo, by its
\* fields: bit 31 is the sign, bits 30..23 the exponent, bits 22..0 the fraction.
Binary32OfWords(hi, lo) ==
    [sign     |-> hi \div 32768,
     exponent |-> (hi \div 128) % 256,
     fraction |-> (hi % 128) * 65536 + lo]

\* The reference encoder: the two 16-bit words of the big-endian pattern of a
\* binary32 value.
Binary32Words(f) ==
    <<f.sign * 32768 + f.exponent * 128 + f.fraction \div 65536, f.fraction % 65536>>

\* C17: for every block that passed the validation, whatever the configured
\* reg_count, tp_700 emits 24 channel values, and channel i (0-based) is the
\* float of the pair (registers[2i], registers[2i + 1]), high word first.
C17_TwentyFourChannels ==
    (call.fn = "tp_700" /\ decoded # NotDecoded)
    => /\ decoded.status = "No error"
       /\ Len(decoded.temps) = TempChannels
       /\ \A c \in 1..Len(decoded.temps) :
             decoded.temps[c] =
                 Binary32OfWords(At(call.regs, 2 * (c - 1)), At(call.regs, 2 * (c - 1) + 1))

\* C18: every float the decode loop produces from a register pair (hi, lo) is
\* a binary32 value (sign bit, 8-bit exponent, 23-bit fraction) that the
\* reference encoder maps back to the words hi, lo.
C18_FloatRoundTrip ==
    (call.fn = "tp_700" /\ decoded.status = "No error")
    => \A c \in 1..Len(decoded.temps) :
          /\ decoded.temps[c].sign \in 0..1
          /\ decoded.temps[c].exponent \in 0..255
          /\ decoded.temps[c].fraction \in 0..8388607
          /\ Binary32Words(decoded.temps[c])
                 = <<At(call.regs, 2 * (c - 1)), At(call.regs, 2 * (c - 1) + 1)>>

\* C19: in the retry loop every failed attempt is followed by one sleep before
\* the next attempt, all sleeps of a unit have the same duration, and the
\* attempt budget and the duration are those the configuration gives.
C19_ConstantConfiguredBackoff ==
    cfg.name = "hoymiles_dtu_p" =>
        /\ pc = "hm_retry" => Len(slept) = attempt
        /\ pc = "hm_backoff" => Len(slept) = attempt - 1
        /\ \A i \in 1..Len(slept) : slept[i] = slept[1]
        /\ cfg.retry_interval # 0 => \A i \in 1..Len(slept) : slept[i] = cfg.retry_interval
        /\ (cfg.retries # 0 /\ pc = "hm_exit") => unitReads = cfg.retries

\* C20: every read hoymiles_dtu_p issues for unit index i, first attempt or
\* retry, has address start_addr + 96 * (i - 1) and count reg_count, and a
\* retry for the same unit has the address of the attempt before it.
C20_RetryKeepsAddress ==
    [][ (cfg.name = "hoymiles_dtu_p" /\ reads' = reads + 1)
        => /\ lastRead'.addr = cfg.start_addr + 96 * (cfg.id_range[k] - 1)
           /\ lastRead'.count = cfg.reg_count
           /\ unitReads >= 1 => lastRead'.addr = lastRead.addr ]_vars

\* C20 witness: unit index 3 of a range starting at 2, with a start address
\* that is not 0, has been read a third time.
C20_ThirdUnitRetried ==
    /\ cfg.name = "hoymiles_dtu_p"
    /\ cfg.id_range = <<2, 3>>
    /\ cfg.start_addr = 65500
    /\ k = 2
    /\ unitReads = 3
    /\ lastRead.addr = 65500 + 192

\* C21: every read call issued has an address in 0..65535, a count in
\* 0..65535 and a unit id in 0..255.
C21_ReadContract ==
    reads > 0 =>
        /\ lastRead.addr \in 0..65535
        /\ lastRead.count \in 0..65535
        /\ lastRead.unit \in 0..255

\* C22: for 16-bit words hi, lo the quantity (hi << 16) + lo equals
\* (hi << 16) | lo and is below 2^32: as two digits in base 65536 it is the
\* pair (hi, lo) itself.
C22_CombineIsOr ==
    (call.fn = "combine" /\ decoded # NotDecoded)
    => LET hi == At(call.regs, 0)
           lo == At(call.regs, 1)
       IN  /\ decoded.sum = OrWord(Shl16(hi), lo)
           /\ decoded.sum.high \in 0..65535
           /\ decoded.sum.low \in 0..65535
           /\ decoded.sum = [high |-> hi, low |-> lo]

\* C22 witness: the largest pair has been combined, and a pair with the top
\* bit of the high word set.
C22_TopBitCombined ==
    /\ call.fn = "combine"
    /\ decoded # NotDecoded
    /\ At(call.regs, 0) \in {32768, 65535}
    /\ At(call.regs, 1) = 65535
    /\ decoded.sum.high >= 32768

\* C23: every row hoymiles_dtu_p writes for a unit index is decoded from the
\* register block that was read for that unit index.
C23_RowFromOwnBlock ==
    cfg.name = "hoymiles_dtu_p" =>
        \A i \in 1..Len(rows) : rows[i].block = rows[i].unit

\* The units whose blocks hoymiles_dtu_p has collected in this cycle, in order.
BlockUnits == [j \in 1..Len(regs) |-> regs[j].unit]

\* C24: hoymiles_dtu_p has written a row in a cycle only if the reads of all
\* units of the range succeeded in it, and a cycle in which a unit exhausted
\* its retries has no row, whatever was read before.
C24_AllOrNothing ==
    cfg.name = "hoymiles_dtu_p" =>
        /\ rows # <<>> => (BlockUnits = cfg.id_range /\ pc \notin {"hm_unit", "hm_retry", "hm_backoff"})
        /\ pc \in {"hm_unit", "hm_retry", "hm_backoff", "hm_exit"} => rows = <<>>
        /\ Escalated => rows = <<>>

\* C24 witness: the second unit of the range exhausted its retries after the
\* first had been read successfully, and the process has ended.
C24_SecondUnitExhausted ==
    /\ cfg.name = "hoymiles_dtu_p"
    /\ Escalated
    /\ Len(regs) = 1
    /\ regs[1].len + 1 >= HoymilesMinData
    /\ k = 2
    /\ pc = "done"
    /\ rows = <<>>

\* The units of the blocks collected so far in this cycle.
UnitsRead == {regs[j].unit : j \in 1..Len(regs)}

\* C25: in hoymiles_dtu_p the attempts counted are those of the current unit
\* alone, the retry loop runs only while the unit has no successful read, no
\* read is issued for a unit whose block was already collected in the cycle,
\* and a successful read ends the unit.
C25_SuccessEndsRetries ==
    /\ [](cfg.name = "hoymiles_dtu_p" =>
            /\ pc \in {"hm_retry", "hm_backoff"} => (attempt = unitReads /\ ~success)
            /\ Len(regs) <= Len(cfg.id_range))
    /\ [][ (cfg.name = "hoymiles_dtu_p" /\ reads' = reads + 1)
           => /\ cfg.id_range[k] \notin UnitsRead
              /\ Len(regs') = Len(regs) + 1 => (success' /\ pc' \in {"hm_unit", "hm_parse"}) ]_vars

\* C25 witness: the first unit failed nine times and then succeeded, and the
\* second unit has still been given all of its max_retries attempts.
C25_FullBudgetAfterFailures ==
    /\ cfg.name = "hoymiles_dtu_p"
    /\ cfg.id_range = <<1, 2>>
    /\ k = 2
    /\ Len(regs) = 1
    /\ reads = 2 * max_retries
    /\ unitReads = max_retries
    /\ attempt = max_retries

\* C26: a modbus_logger process that connected and then ended, other than by
\* an operator interrupt, has had close() invoked and its transport is closed.
C26_ClosedBeforeExit ==
    ( /\ script = "modbus_logger"
      /\ pc = "done"
      /\ client.connected
      /\ pending # "KeyboardInterrupt" )
    => (client.closeCalls >= 1 /\ ~client.open)

\* C27: while a standalone script runs, every log file held by the Tee
\* installed as sys.stdout is open, and no write to the stream has raised.
C27_TeeFilesOpen ==
    (script # "modbus_logger" /\ pc # "done")
    => /\ \A j \in 1..Len(tee) : tee[j] \in openLogs
       /\ pending # "ValueError"

\* The units of the current cycle whose read raised.
RaisedUnits == {failed[i].unit : i \in 1..Len(failed)}

\* The rows a DC meter host has appended when every unit read so far either
\* gave a full block or raised: one row per unit read, in order.
DcRowsFor(units) ==
    [j \in 1..Len(units) |->
        IF units[j] \in RaisedUnits
        THEN Row(units[j], units[j], 2, Fill(4, "null"), "Error")
        ELSE Row(units[j], units[j], 2, Fill(4, "num"), "No error")]

\* C28: dcm_3366 under modbus_logger and the standalone dc_meter_logger behave
\* alike on reads that succeed or raise: each has appended one row per unit
\* read so far, with the same values and status for the same outcome, and each
\* is still polling with the transport untouched.
C28_DcmMatchesStandalone ==
    ( /\ cfg.name \in {"dcm_3366", "dc_meter_logger"}
      /\ pending = "none"
      /\ \A i \in 1..Len(failed) : failed[i].why = "raise" )
    => /\ rows = DcRowsFor(visited)
       /\ pc \notin {"dcm_close", "dcm_exit"}
       /\ client.closeCalls = 0

\* The steps of modbus_logger.py that come before the first call of the device
\* function and do not depend on the configuration or the Modbus device.
PreReadPcs == {"ml_import", "ml_rotate", "ml_csv", "ml_sleep"}

\* C29: modbus_logger never ends in one of its pre-read steps (import of the
\* helpers, log rotation, CSV path, disk usage, sleep) before the first poll
\* cycle, unless an operator interrupt stopped it there.
C29_PreReadStepsComplete ==
    (script = "modbus_logger" /\ pc = "done" /\ cycles = 0 /\ pending # "KeyboardInterrupt")
    => exitAt \notin PreReadPcs

Next ==
    \/ ml_import \/ ml_argv \/ ml_config \/ ml_client \/ ml_connect \/ ml_lookup
    \/ ml_rotate \/ ml_csv \/ ml_sleep \/ ml_call \/ ml_finally
    \/ lr_unit
    \/ hm_unit \/ hm_retry \/ hm_backoff \/ hm_escalate \/ hm_exit \/ hm_parse
    \/ tp_unit \/ tp_close \/ tp_exit
    \/ dcm_unit \/ dcm_close \/ dcm_exit
    \/ cw_unit \/ cw_close \/ cw_exit
    \/ dc_connect \/ dc_setup \/ dc_rotate \/ dc_unit \/ dc_sleep \/ dc_finally
    \/ tl_connect \/ tl_setup \/ tl_rotate \/ tl_unit \/ tl_sleep \/ tl_finally
    \/ KeyboardInterrupt

Spec == Init /\ [][Next]_vars

\* The decoders applied to register blocks, outside any process.
DecodeInit ==
    /\ call \in { [fn |-> "dcm_3366", regs |-> b, reg_count |-> DcmMinRegs] : b \in DcmBlocks }
           \cup { [fn |-> "tp_700", regs |-> TpBlock(hi, lo, rc), reg_count |-> rc] :
                    hi \in FloatHighWords, lo \in FloatLowWords, rc \in RegCounts }
           \cup { [fn |-> "combine", regs |-> <<hi, lo>>, reg_count |-> 2] :
                    hi \in FloatHighWords, lo \in FloatLowWords }
    /\ decoded = NotDecoded
    /\ script = "modbus_logger"
    /\ helpers = "as_called"
    /\ pc = "decode"
    /\ cfg = NoConfig
    /\ client = [created |-> FALSE, connected |-> FALSE, open |-> FALSE, closeCalls |-> 0]
    /\ exitStatus = -1
    /\ exitAt = ""
    /\ pending = "none"
    /\ cycles = 0
    /\ k = 1
    /\ rows = <<>>
    /\ visited = <<>>
    /\ failed = <<>>
    /\ reads = 0
    /\ unitReads = 0
    /\ lastRead = NoRead
    /\ attempt = 0
    /\ success = FALSE
    /\ regs = <<>>
    /\ slept = <<>>
    /\ sleeps = 0
    /\ tee = <<>>
    /\ openLogs = {}

DecodeNext == dcm_decode \/ tp_decode \/ combine_pair

DecodeSpec == DecodeInit /\ [][DecodeNext]_vars
====
